---- MODULE Spec2Model ----
(***************************************************************************)
(* A model of the doubly-linked list of src/list.c (list_t, list_node_t,   *)
(* list_iterator_t).  Node memory is an arena of MaxNodes blocks; a node   *)
(* pointer is a block number and NULL is 0.  A value handle is a number,    *)
(* compared numerically as the default ordering compares pointers.         *)
(***************************************************************************)
EXTENDS Integers, Sequences, FiniteSets, TLC

MaxNodes == 3
MaxVal == 2
MaxCalls == MaxNodes + 2

NULL == 0
LIST_HEAD == 0
LIST_TAIL == 1

Nodes == 1..MaxNodes
Vals == 1..MaxVal
NodePtr == Nodes \cup {NULL}

VARIABLES
    prev,       \* list_node_t.prev of every block
    next,       \* list_node_t.next of every block
    val,        \* list_node_t.val of every block
    owner,      \* who holds the block: "none" (never allocated), "caller",
                \* "list" (linked into the list) or "freed" (LIST_FREE'd)
    head,       \* list_t.head
    tail,       \* list_t.tail
    len,        \* list_t.len
    free,       \* list_t.free  ("NULL" when not installed)
    compare,    \* list_t.compare ("NULL" when not installed)
    match,      \* list_t.match ("NULL" when not installed)
    alive,      \* FALSE once list_destroy has released the list_t
    released,   \* per block: how often self->free was invoked on its val
    fault,      \* TRUE once a call dereferenced a null pointer and the
                \* process was killed
    call,       \* the last call made: <<function, argument>>
    ret,        \* what the last call returned
    pushed,     \* the nodes pushed so far, in call order (scenario history)
    popped,     \* what the pops returned so far, in call order (scenario history)
    it_next,    \* list_iterator_t.next of the two iterators
    it_direction, \* list_iterator_t.direction of the two iterators
    it_state,   \* per iterator: "none" (not allocated) or "live"
    yielded     \* per iterator: what list_iterator_next returned so far

nodeVars == <<prev, next, val, owner>>
listVars == <<head, tail, len, free, compare, alive>>
histVars == <<pushed, popped>>
iterVars == <<it_next, it_direction, it_state, yielded>>
vars == <<prev, next, val, owner, head, tail, len, free, compare, alive,
          released, call, ret, pushed, popped,
          it_next, it_direction, it_state, yielded, match, fault>>

Iters == {1, 2}

(***************************************************************************)
(* list_new (list.c): an empty list with no callbacks.  No block of the    *)
(* arena is allocated yet.                                                 *)
(***************************************************************************)
list_new ==
    /\ head = NULL
    /\ tail = NULL
    /\ free = "NULL"
    /\ match = "NULL"
    /\ compare = "NULL"
    /\ len = 0

Init ==
    /\ list_new
    /\ alive = TRUE
    /\ fault = FALSE
    /\ prev = [n \in Nodes |-> NULL]
    /\ next = [n \in Nodes |-> NULL]
    /\ val = [n \in Nodes |-> NULL]
    /\ owner = [n \in Nodes |-> "none"]
    /\ released = [n \in Nodes |-> 0]
    /\ call = <<"list_new", NULL>>
    /\ ret = NULL
    /\ pushed = <<>>
    /\ popped = <<>>
    /\ it_next = [i \in Iters |-> NULL]
    /\ it_direction = [i \in Iters |-> LIST_HEAD]
    /\ it_state = [i \in Iters |-> "none"]
    /\ yielded = [i \in Iters |-> <<>>]

\* LIST_MALLOC: the lowest block never handed out (blocks are not reused).
Unallocated == {n \in Nodes : owner[n] = "none"}
LIST_MALLOC == CHOOSE n \in Unallocated : \A m \in Unallocated : n <= m

Detached == {n \in Nodes : owner[n] = "caller"}
Linked == {n \in Nodes : owner[n] = "list"}

(***************************************************************************)
(* list_node_new(val): NULL for a null value or when allocation fails      *)
(* (mem = FALSE), else a fresh node with prev = next = NULL.               *)
(***************************************************************************)
list_node_new(v, mem) ==
    IF v = NULL \/ ~mem
    THEN /\ ret' = NULL
         /\ UNCHANGED nodeVars
    ELSE /\ Unallocated # {}
         /\ LET self == LIST_MALLOC IN
              /\ prev' = [prev EXCEPT ![self] = NULL]
              /\ next' = [next EXCEPT ![self] = NULL]
              /\ val' = [val EXCEPT ![self] = v]
              /\ owner' = [owner EXCEPT ![self] = "caller"]
              /\ ret' = self

\* list_rpush with the bug of linking the node at the head (list_lpush's body)
list_rpush_Prepends(node) ==
    IF node = NULL
    THEN /\ ret' = NULL
         /\ UNCHANGED <<head, tail, len, prev, next>>
    ELSE /\ IF len # 0
            THEN /\ next' = [next EXCEPT ![node] = head]
                 /\ prev' = [prev EXCEPT ![node] = NULL, ![head] = node]
                 /\ head' = node
                 /\ tail' = tail
            ELSE /\ head' = node
                 /\ tail' = node
                 /\ prev' = [prev EXCEPT ![node] = NULL]
                 /\ next' = [next EXCEPT ![node] = NULL]
         /\ len' = len + 1
         /\ ret' = node

(***************************************************************************)
(* list_rpush(self, node): append.  Sets head, tail, len, prev, next, ret. *)
(***************************************************************************)
list_rpush(node) ==
    IF node = NULL
    THEN /\ ret' = NULL
         /\ UNCHANGED <<head, tail, len, prev, next>>
    ELSE /\ IF len # 0
            THEN /\ prev' = [prev EXCEPT ![node] = tail]
                 /\ next' = [next EXCEPT ![node] = NULL, ![tail] = node]
                 /\ tail' = node
                 /\ head' = head
            ELSE /\ head' = node
                 /\ tail' = node
                 /\ prev' = [prev EXCEPT ![node] = NULL]
                 /\ next' = [next EXCEPT ![node] = NULL]
         /\ len' = len + 1
         /\ ret' = node

\* list_lpush with the bug of counting a refused null node
list_lpush_CountsNull(node) ==
    IF node = NULL
    THEN /\ ret' = NULL
         /\ len' = len + 1
         /\ UNCHANGED <<head, tail, prev, next>>
    ELSE /\ IF len # 0
            THEN /\ next' = [next EXCEPT ![node] = head]
                 /\ prev' = [prev EXCEPT ![node] = NULL, ![head] = node]
                 /\ head' = node
                 /\ tail' = tail
            ELSE /\ head' = node
                 /\ tail' = node
                 /\ prev' = [prev EXCEPT ![node] = NULL]
                 /\ next' = [next EXCEPT ![node] = NULL]
         /\ len' = len + 1
         /\ ret' = node

(***************************************************************************)
(* list_lpush(self, node): prepend.                                        *)
(***************************************************************************)
list_lpush(node) ==
    IF node = NULL
    THEN /\ ret' = NULL
         /\ UNCHANGED <<head, tail, len, prev, next>>
    ELSE /\ IF len # 0
            THEN /\ next' = [next EXCEPT ![node] = head]
                 /\ prev' = [prev EXCEPT ![node] = NULL, ![head] = node]
                 /\ head' = node
                 /\ tail' = tail
            ELSE /\ head' = node
                 /\ tail' = node
                 /\ prev' = [prev EXCEPT ![node] = NULL]
                 /\ next' = [next EXCEPT ![node] = NULL]
         /\ len' = len + 1
         /\ ret' = node

\* list_rpop with the bug of leaving node->prev set on the returned node
list_rpop_KeepsPrev ==
    IF len = 0
    THEN /\ ret' = NULL
         /\ UNCHANGED <<head, tail, len, prev, next>>
    ELSE LET node == tail IN
         /\ len' = len - 1
         /\ IF len - 1 # 0
            THEN /\ tail' = prev[node]
                 /\ head' = head
                 /\ next' = [next EXCEPT ![prev[node]] = NULL, ![node] = NULL]
            ELSE /\ tail' = NULL
                 /\ head' = NULL
                 /\ next' = [next EXCEPT ![node] = NULL]
         /\ prev' = prev
         /\ ret' = node

(***************************************************************************)
(* list_rpop(self): detach and return the tail, NULL on an empty list.     *)
(***************************************************************************)
list_rpop ==
    IF len = 0
    THEN /\ ret' = NULL
         /\ UNCHANGED <<head, tail, len, prev, next>>
    ELSE LET node == tail IN
         /\ len' = len - 1
         /\ IF len - 1 # 0
            THEN /\ tail' = prev[node]
                 /\ head' = head
                 /\ next' = [next EXCEPT ![prev[node]] = NULL, ![node] = NULL]
            ELSE /\ tail' = NULL
                 /\ head' = NULL
                 /\ next' = [next EXCEPT ![node] = NULL]
         /\ prev' = [prev EXCEPT ![node] = NULL]
         /\ ret' = node

\* list_lpop with the bug of clearing only head when the list empties
list_lpop_KeepsTail ==
    IF len = 0
    THEN /\ ret' = NULL
         /\ UNCHANGED <<head, tail, len, prev, next>>
    ELSE LET node == head IN
         /\ len' = len - 1
         /\ IF len - 1 # 0
            THEN /\ head' = next[node]
                 /\ tail' = tail
                 /\ prev' = [prev EXCEPT ![next[node]] = NULL, ![node] = NULL]
            ELSE /\ head' = NULL
                 /\ tail' = tail
                 /\ prev' = [prev EXCEPT ![node] = NULL]
         /\ next' = [next EXCEPT ![node] = NULL]
         /\ ret' = node

(***************************************************************************)
(* list_lpop(self): detach and return the head, NULL on an empty list.     *)
(***************************************************************************)
list_lpop ==
    IF len = 0
    THEN /\ ret' = NULL
         /\ UNCHANGED <<head, tail, len, prev, next>>
    ELSE LET node == head IN
         /\ len' = len - 1
         /\ IF len - 1 # 0
            THEN /\ head' = next[node]
                 /\ tail' = tail
                 /\ prev' = [prev EXCEPT ![next[node]] = NULL, ![node] = NULL]
            ELSE /\ head' = NULL
                 /\ tail' = NULL
                 /\ prev' = [prev EXCEPT ![node] = NULL]
         /\ next' = [next EXCEPT ![node] = NULL]
         /\ ret' = node

\* list_remove with the bug of leaving self->tail on a removed last node
list_remove_NoTailUpdate(node) ==
    IF node = NULL
    THEN /\ ret' = -1
         /\ UNCHANGED <<head, tail, len, prev, next, val, owner, released>>
    ELSE /\ IF prev[node] # NULL
            THEN /\ next' = [next EXCEPT ![prev[node]] = next[node], ![node] = NULL]
                 /\ head' = head
            ELSE /\ head' = next[node]
                 /\ next' = [next EXCEPT ![node] = NULL]
         /\ IF next[node] # NULL
            THEN /\ prev' = [prev EXCEPT ![next[node]] = prev[node], ![node] = NULL]
                 /\ tail' = tail
            ELSE /\ tail' = tail
                 /\ prev' = [prev EXCEPT ![node] = NULL]
         /\ released' = IF free # "NULL"
                        THEN [released EXCEPT ![node] = @ + 1]
                        ELSE released
         /\ owner' = [owner EXCEPT ![node] = "freed"]
         /\ val' = [val EXCEPT ![node] = NULL]
         /\ len' = len - 1
         /\ ret' = 0

\* list_remove with a membership test added: a node that is not linked in
\* the list is refused like a null one
list_remove_Validates(node) ==
    IF node = NULL \/ owner[node] # "list"
    THEN /\ ret' = -1
         /\ UNCHANGED <<head, tail, len, prev, next, val, owner, released>>
    ELSE /\ IF prev[node] # NULL
            THEN /\ next' = [next EXCEPT ![prev[node]] = next[node], ![node] = NULL]
                 /\ head' = head
            ELSE /\ head' = next[node]
                 /\ next' = [next EXCEPT ![node] = NULL]
         /\ IF next[node] # NULL
            THEN /\ prev' = [prev EXCEPT ![next[node]] = prev[node], ![node] = NULL]
                 /\ tail' = tail
            ELSE /\ tail' = prev[node]
                 /\ prev' = [prev EXCEPT ![node] = NULL]
         /\ released' = IF free # "NULL"
                        THEN [released EXCEPT ![node] = @ + 1]
                        ELSE released
         /\ owner' = [owner EXCEPT ![node] = "freed"]
         /\ val' = [val EXCEPT ![node] = NULL]
         /\ len' = len - 1
         /\ ret' = 0

(***************************************************************************)
(* list_remove(self, node): unlink node, release its value through         *)
(* self->free when installed, free the node.  The freed block's fields are *)
(* no longer program state and are cleared.                                *)
(***************************************************************************)
list_remove(node) ==
    IF node = NULL
    THEN /\ ret' = -1
         /\ UNCHANGED <<head, tail, len, prev, next, val, owner, released>>
    ELSE /\ IF prev[node] # NULL
            THEN /\ next' = [next EXCEPT ![prev[node]] = next[node], ![node] = NULL]
                 /\ head' = head
            ELSE /\ head' = next[node]
                 /\ next' = [next EXCEPT ![node] = NULL]
         /\ IF next[node] # NULL
            THEN /\ prev' = [prev EXCEPT ![next[node]] = prev[node], ![node] = NULL]
                 /\ tail' = tail
            ELSE /\ tail' = prev[node]
                 /\ prev' = [prev EXCEPT ![node] = NULL]
         /\ released' = IF free # "NULL"
                        THEN [released EXCEPT ![node] = @ + 1]
                        ELSE released
         /\ owner' = [owner EXCEPT ![node] = "freed"]
         /\ val' = [val EXCEPT ![node] = NULL]
         /\ len' = len - 1
         /\ ret' = 0

(***************************************************************************)
(* The loop of list_destroy: the blocks visited by len steps of            *)
(* curr = curr->next starting at head.                                     *)
(***************************************************************************)
RECURSIVE DestroyLoop(_, _)
DestroyLoop(curr, n) ==
    IF n = 0 THEN <<>> ELSE <<curr>> \o DestroyLoop(next[curr], n - 1)

Count(seq, x) == Cardinality({k \in 1..Len(seq) : seq[k] = x})

\* list_destroy with the bug of never calling self->free
list_destroy_NoRelease ==
    LET visited == DestroyLoop(head, len)
        hit(n) == Count(visited, n) > 0
    IN  /\ released' = released
        /\ owner' = [n \in Nodes |-> IF hit(n) THEN "freed" ELSE owner[n]]
        /\ prev' = [n \in Nodes |-> IF hit(n) THEN NULL ELSE prev[n]]
        /\ next' = [n \in Nodes |-> IF hit(n) THEN NULL ELSE next[n]]
        /\ val' = [n \in Nodes |-> IF hit(n) THEN NULL ELSE val[n]]
        /\ alive' = FALSE
        /\ ret' = 0

(***************************************************************************)
(* list_destroy(self): release (when self->free is installed) and free     *)
(* every node the loop visits, then free the list itself.                  *)
(***************************************************************************)
list_destroy ==
    LET visited == DestroyLoop(head, len)
        hit(n) == Count(visited, n) > 0
    IN  /\ released' = [n \in Nodes |->
                          IF free # "NULL"
                          THEN released[n] + Count(visited, n)
                          ELSE released[n]]
        /\ owner' = [n \in Nodes |-> IF hit(n) THEN "freed" ELSE owner[n]]
        /\ prev' = [n \in Nodes |-> IF hit(n) THEN NULL ELSE prev[n]]
        /\ next' = [n \in Nodes |-> IF hit(n) THEN NULL ELSE next[n]]
        /\ val' = [n \in Nodes |-> IF hit(n) THEN NULL ELSE val[n]]
        /\ alive' = FALSE
        /\ ret' = 0

(***************************************************************************)
(* list_iterator_new / list_iterator_next as functions of the cursor.      *)
(***************************************************************************)
\* list_iterator_next with the bug of following next in both directions
list_iterator_next_IgnoresDirection(curr, direction) ==
    IF curr # NULL THEN next[curr] ELSE curr

\* list_iterator_new with the bug of starting at the head in both directions
list_iterator_new_AlwaysHead(direction) == head

list_iterator_new(direction) ==
    IF direction = LIST_HEAD THEN head ELSE tail

\* the cursor after list_iterator_next returned curr
list_iterator_next(curr, direction) ==
    IF curr # NULL
    THEN (IF direction = LIST_HEAD THEN next[curr] ELSE prev[curr])
    ELSE curr

(***************************************************************************)
(* The compare test of the ordered insertions: self->compare when          *)
(* installed (the callback documented in list.h: 1 if a > b, else 0),      *)
(* else the handles themselves.                                            *)
(***************************************************************************)
greater(a, b) == IF a > b THEN 1 ELSE 0

\* the ascending test with the comparison turned around
AscBreak_Less(a, b) ==
    IF compare # "NULL" THEN greater(b, a) # 0 ELSE a < b

\* the ascending test breaking on an equal key too
AscBreak_OrEqual(a, b) ==
    IF compare # "NULL" THEN greater(b, a) = 0 ELSE a >= b

AscBreak(a, b) ==
    IF compare # "NULL" THEN greater(a, b) # 0 ELSE a > b

\* the descending test with the ascending one copied in
DescBreak_AsAsc(a, b) ==
    IF compare # "NULL" THEN greater(a, b) # 0 ELSE a > b

DescBreak(a, b) ==
    IF compare # "NULL" THEN ~(greater(a, b) # 0) ELSE a < b

\* the while loop of list_push_asc: the node it breaks at, NULL if none
RECURSIVE AscScan(_, _)
AscScan(it, v) ==
    LET node == it IN
    IF node = NULL THEN NULL
    ELSE IF AscBreak(val[node], v) THEN node
    ELSE AscScan(list_iterator_next(node, LIST_HEAD), v)

\* the while loop of list_push_desc
RECURSIVE DescScan(_, _)
DescScan(it, v) ==
    LET node == it IN
    IF node = NULL THEN NULL
    ELSE IF DescBreak(val[node], v) THEN node
    ELSE DescScan(list_iterator_next(node, LIST_HEAD), v)

\* the final else branch with the bug of not setting node->prev->next
InsertBefore_NoFwdLink(node_in, node) ==
    /\ next' = [next EXCEPT ![node_in] = node]
    /\ prev' = [prev EXCEPT ![node_in] = prev[node], ![node] = node_in]
    /\ len' = len + 1
    /\ UNCHANGED <<head, tail>>
    /\ ret' = node_in

\* the final else branch of both ordered insertions: link node_in before node
InsertBefore(node_in, node) ==
    /\ next' = [next EXCEPT ![node_in] = node, ![prev[node]] = node_in]
    /\ prev' = [prev EXCEPT ![node_in] = prev[node], ![node] = node_in]
    /\ len' = len + 1
    /\ UNCHANGED <<head, tail>>
    /\ ret' = node_in

(***************************************************************************)
(* list_push_asc(self, node_in)                                            *)
(***************************************************************************)
list_push_asc(node_in) ==
    IF node_in = NULL
    THEN /\ ret' = NULL
         /\ UNCHANGED <<head, tail, len, prev, next>>
    ELSE IF len = 0 THEN list_rpush(node_in)
    ELSE LET node == AscScan(list_iterator_new(LIST_HEAD), val[node_in]) IN
         IF node = NULL THEN list_rpush(node_in)
         ELSE IF prev[node] = NULL THEN list_lpush(node_in)
         ELSE InsertBefore(node_in, node)

\* list_push_desc with the bug of prepending when the loop found no node
list_push_desc_NoneIsHead(node_in) ==
    IF node_in = NULL
    THEN /\ ret' = NULL
         /\ UNCHANGED <<head, tail, len, prev, next>>
    ELSE IF len = 0 THEN list_rpush(node_in)
    ELSE LET node == DescScan(list_iterator_new(LIST_HEAD), val[node_in]) IN
         IF node = NULL THEN list_lpush(node_in)
         ELSE IF prev[node] = NULL THEN list_lpush(node_in)
         ELSE InsertBefore(node_in, node)

(***************************************************************************)
(* list_push_desc(self, node_in)                                           *)
(***************************************************************************)
list_push_desc(node_in) ==
    IF node_in = NULL
    THEN /\ ret' = NULL
         /\ UNCHANGED <<head, tail, len, prev, next>>
    ELSE IF len = 0 THEN list_rpush(node_in)
    ELSE LET node == DescScan(list_iterator_new(LIST_HEAD), val[node_in]) IN
         IF node = NULL THEN list_rpush(node_in)
         ELSE IF prev[node] = NULL THEN list_lpush(node_in)
         ELSE InsertBefore(node_in, node)

(***************************************************************************)
(* list_at(self, index): index < 0 walks from the tail with ~index.        *)
(***************************************************************************)
\* node after `index` further calls of list_iterator_next; it is the cursor
RECURSIVE AtLoop(_, _, _, _)
AtLoop(node, it, direction, index) ==
    IF index = 0 THEN node
    ELSE AtLoop(it, list_iterator_next(it, direction), direction, index - 1)

\* list_at with the bug of negating a negative index instead of ~index
list_at_Negates(index) ==
    LET direction == IF index < 0 THEN LIST_TAIL ELSE LIST_HEAD
        idx == IF index < 0 THEN -index ELSE index
    IN  IF idx < len
        THEN LET it == list_iterator_new(direction) IN
             AtLoop(it, list_iterator_next(it, direction), direction, idx)
        ELSE NULL

list_at(index) ==
    LET direction == IF index < 0 THEN LIST_TAIL ELSE LIST_HEAD
        idx == IF index < 0 THEN (-index) - 1 ELSE index
    IN  IF idx < len
        THEN LET it == list_iterator_new(direction) IN
             AtLoop(it, list_iterator_next(it, direction), direction, idx)
        ELSE NULL

(***************************************************************************)
(* The operations as steps of a caller: one call each.  A caller passes a  *)
(* push a node it holds (or NULL), and passes list_remove a node of the    *)
(* list (or NULL).  After list_destroy nothing is called any more.         *)
(***************************************************************************)
PushArgs == Detached \cup {NULL}

Take(node) == IF node = NULL THEN owner ELSE [owner EXCEPT ![node] = "list"]
Give(node) == IF node = NULL THEN owner ELSE [owner EXCEPT ![node] = "caller"]

NodeNew(v, mem) ==
    /\ alive
    /\ list_node_new(v, mem)
    /\ call' = <<"list_node_new", v>>
    /\ UNCHANGED <<match, fault>>
    /\ UNCHANGED <<listVars, released>>

Rpush(node) ==
    /\ alive
    /\ node \in PushArgs
    /\ list_rpush(node)
    /\ owner' = Take(node)
    /\ call' = <<"list_rpush", node>>
    /\ UNCHANGED <<match, fault>>
    /\ UNCHANGED <<val, free, compare, alive, released>>

Lpush(node) ==
    /\ alive
    /\ node \in PushArgs
    /\ list_lpush(node)
    /\ owner' = Take(node)
    /\ call' = <<"list_lpush", node>>
    /\ UNCHANGED <<match, fault>>
    /\ UNCHANGED <<val, free, compare, alive, released>>

PushAsc(node) ==
    /\ alive
    /\ node \in PushArgs
    /\ list_push_asc(node)
    /\ owner' = Take(node)
    /\ call' = <<"list_push_asc", node>>
    /\ UNCHANGED <<match, fault>>
    /\ UNCHANGED <<val, free, compare, alive, released>>

PushDesc(node) ==
    /\ alive
    /\ node \in PushArgs
    /\ list_push_desc(node)
    /\ owner' = Take(node)
    /\ call' = <<"list_push_desc", node>>
    /\ UNCHANGED <<match, fault>>
    /\ UNCHANGED <<val, free, compare, alive, released>>

Rpop ==
    /\ alive
    /\ list_rpop
    /\ owner' = Give(ret')
    /\ call' = <<"list_rpop", NULL>>
    /\ UNCHANGED <<match, fault>>
    /\ UNCHANGED <<val, free, compare, alive, released>>

Lpop ==
    /\ alive
    /\ list_lpop
    /\ owner' = Give(ret')
    /\ call' = <<"list_lpop", NULL>>
    /\ UNCHANGED <<match, fault>>
    /\ UNCHANGED <<val, free, compare, alive, released>>

Remove(node) ==
    /\ alive
    /\ node \in Linked \cup {NULL}
    /\ list_remove(node)
    /\ call' = <<"list_remove", node>>
    /\ UNCHANGED <<match, fault>>
    /\ UNCHANGED <<free, compare, alive>>

Destroy ==
    /\ alive
    /\ list_destroy
    /\ call' = <<"list_destroy", NULL>>
    /\ UNCHANGED <<match, fault>>
    /\ UNCHANGED <<head, tail, len, free, compare>>

\* the caller installs callbacks (fields of list_t): once, right after
\* list_new
Configure(f, c) ==
    /\ alive
    /\ call[1] = "list_new"
    /\ <<f, c>> # <<free, compare>>
    /\ free' = f
    /\ compare' = c
    /\ call' = <<"configure", NULL>>
    /\ UNCHANGED <<match, fault>>
    /\ ret' = NULL
    /\ UNCHANGED <<nodeVars, head, tail, len, alive, released>>

At(index) ==
    /\ alive
    /\ ret' = list_at(index)
    /\ call' = <<"list_at", index>>
    /\ UNCHANGED <<match, fault>>
    /\ UNCHANGED <<nodeVars, listVars, released>>

FreeFns == {"NULL", "release"}
CompareFns == {"NULL", "greater"}
Indexes == (0 - (MaxNodes + 2)) .. (MaxNodes + 2)

Quiet == UNCHANGED <<histVars, iterVars>>

Next ==
    \/ \E v \in Vals \cup {NULL}, mem \in BOOLEAN : NodeNew(v, mem) /\ Quiet
    \/ \E node \in NodePtr : Rpush(node) /\ Quiet
    \/ \E node \in NodePtr : Lpush(node) /\ Quiet
    \/ \E node \in NodePtr : PushAsc(node) /\ Quiet
    \/ \E node \in NodePtr : PushDesc(node) /\ Quiet
    \/ Rpop /\ Quiet
    \/ Lpop /\ Quiet
    \/ \E node \in NodePtr : Remove(node) /\ Quiet
    \/ \E f \in FreeFns, c \in CompareFns : Configure(f, c) /\ Quiet
    \/ Destroy /\ Quiet

Spec == Init /\ [][Next]_vars

(***************************************************************************)
(* The chain as the claims read it: the nodes met from head by next, and   *)
(* from tail by prev (cut after MaxNodes + 1 nodes, so that a chain that   *)
(* does not end is seen as too long).                                      *)
(***************************************************************************)
RECURSIVE Walk(_, _, _)
Walk(link, n, fuel) ==
    IF n = NULL \/ fuel = 0 THEN <<>>
    ELSE <<n>> \o Walk(link, link[n], fuel - 1)

Fwd == Walk(next, head, MaxNodes + 1)
Bwd == Walk(prev, tail, MaxNodes + 1)
Range(seq) == {seq[k] : k \in 1..Len(seq)}

\* C1: while the list exists, len is the number of nodes reachable from
\* head by next and from tail by prev, every node of the chain but the head
\* has n.prev.next = n and every node but the tail has n.next.prev = n, and
\* head.prev and tail.next are absent.
C1_WellFormed ==
    alive =>
        /\ Len(Fwd) = len
        /\ Cardinality(Range(Fwd)) = len
        /\ Len(Bwd) = len
        /\ Cardinality(Range(Bwd)) = len
        /\ \A n \in Range(Fwd) \cup Range(Bwd) :
              /\ n # head => (prev[n] # NULL /\ next[prev[n]] = n)
              /\ n # tail => (next[n] # NULL /\ prev[next[n]] = n)
        /\ head # NULL => prev[head] = NULL
        /\ tail # NULL => next[tail] = NULL

\* list_push_asc linked a node into the middle of the chain
C1_Witness ==
    /\ alive
    /\ call[1] = "list_push_asc"
    /\ ret # NULL
    /\ prev[ret] # NULL
    /\ next[ret] # NULL
    /\ len = MaxNodes

\* C2: while the list exists, len = 0 exactly when head and tail are both
\* absent.
C2_EmptyIffNoEnds ==
    alive => ((len = 0) <=> (head = NULL /\ tail = NULL))

\* the last remaining node was popped
C2_Witness ==
    /\ alive
    /\ call[1] \in {"list_rpop", "list_lpop"}
    /\ ret # NULL
    /\ len = 0
    /\ head = NULL
    /\ tail = NULL

\* C10: a list_destroy step with a release callback installed invokes it
\* exactly once for the value of every node linked in the list at the call
\* and for no other value (none when no callback is installed); and over
\* the whole run no node's value is released more than once.
C10_DestroyReleasesOnce ==
    /\ [][(alive /\ ~alive') =>
            \A n \in Nodes :
                released'[n] = released[n] +
                    (IF owner[n] = "list" /\ free # "NULL" THEN 1 ELSE 0)]_vars
    /\ [](\A n \in Nodes : released[n] <= 1)

\* list_destroy ran with a release callback installed on a list that held a
\* node, after one node had been popped and another removed: the popped
\* node's value was never released, the two others once each
C10_Witness ==
    /\ ~alive
    /\ free # "NULL"
    /\ \E a, b, c \in Nodes :
          /\ owner[a] = "caller" /\ val[a] # NULL /\ released[a] = 0
          /\ owner[b] = "freed" /\ released[b] = 1
          /\ owner[c] = "freed" /\ released[c] = 1
          /\ b # c
          /\ head = c

(***************************************************************************)
(* Scenarios.  pushed records <<node, value>> of every push, popped        *)
(* records <<node, value>> (or <<NULL, NULL>>) of every pop.               *)
(***************************************************************************)
Entry(node) == <<node, IF node = NULL THEN NULL ELSE val[node]>>

\* Queue scenario: values are wrapped and appended with list_rpush; then
\* the list is drained with list_lpop only, or with list_rpop only, and
\* popped once more.
QNodeNew(v) ==
    /\ popped = <<>>
    /\ NodeNew(v, TRUE)
    /\ Quiet

QRpush(node) ==
    /\ popped = <<>>
    /\ node \in Detached
    /\ Rpush(node)
    /\ pushed' = Append(pushed, Entry(node))
    /\ UNCHANGED <<popped, iterVars>>

QLpop ==
    /\ popped = <<>> \/ call[1] = "list_lpop"
    /\ Len(popped) <= Len(pushed)
    /\ Lpop
    /\ popped' = Append(popped, Entry(ret'))
    /\ UNCHANGED <<pushed, iterVars>>

QRpop ==
    /\ popped = <<>> \/ call[1] = "list_rpop"
    /\ Len(popped) <= Len(pushed)
    /\ Rpop
    /\ popped' = Append(popped, Entry(ret'))
    /\ UNCHANGED <<pushed, iterVars>>

NextQueue ==
    \/ \E v \in Vals : QNodeNew(v)
    \/ \E node \in Nodes : QRpush(node)
    \/ QLpop
    \/ QRpop

SpecQueue == Init /\ [][NextQueue]_vars

\* Ordered scenarios: the compare callback is installed or not, then
\* values are wrapped and inserted with one ordered insertion only.
ONodeNew(v) ==
    /\ NodeNew(v, TRUE)
    /\ Quiet

OConfigure(c) ==
    /\ Configure(free, c)
    /\ Quiet

OPushAsc(node) ==
    /\ node \in Detached
    /\ PushAsc(node)
    /\ pushed' = Append(pushed, Entry(node))
    /\ UNCHANGED <<popped, iterVars>>

OPushDesc(node) ==
    /\ node \in Detached
    /\ PushDesc(node)
    /\ pushed' = Append(pushed, Entry(node))
    /\ UNCHANGED <<popped, iterVars>>

NextAsc ==
    \/ \E v \in Vals : ONodeNew(v)
    \/ \E c \in CompareFns : OConfigure(c)
    \/ \E node \in Nodes : OPushAsc(node)

SpecAsc == Init /\ [][NextAsc]_vars

NextDesc ==
    \/ \E v \in Vals : ONodeNew(v)
    \/ \E c \in CompareFns : OConfigure(c)
    \/ \E node \in Nodes : OPushDesc(node)

SpecDesc == Init /\ [][NextDesc]_vars

NullEntry == <<NULL, NULL>>

\* C3: after values v1..vk were appended with list_rpush to an empty list,
\* successive list_lpop calls return the nodes holding v1..vk in that order
\* and successive list_rpop calls return them in the order vk..v1; after k
\* pops the list is empty and a further pop returns NULL.
C3_FifoLifo ==
    LET k == Len(pushed) IN
    /\ call[1] = "list_lpop" =>
          \A i \in 1..Len(popped) :
              popped[i] = IF i <= k THEN pushed[i] ELSE NullEntry
    /\ call[1] = "list_rpop" =>
          \A i \in 1..Len(popped) :
              popped[i] = IF i <= k THEN pushed[k + 1 - i] ELSE NullEntry
    /\ Len(popped) >= k /\ popped # <<>> =>
          (len = 0 /\ head = NULL /\ tail = NULL)

\* MaxNodes values, not all equal, were appended, popped from the front
\* and the front popped once more
C3_Witness ==
    /\ Len(pushed) = MaxNodes
    /\ pushed[1][2] # pushed[2][2]
    /\ call[1] = "list_lpop"
    /\ Len(popped) = MaxNodes + 1
    /\ ret = NULL

ValuesFwd == [k \in 1..Len(Fwd) |-> val[Fwd[k]]]
PushedValues == [k \in 1..Len(pushed) |-> pushed[k][2]]
PushedNodes == {pushed[k][1] : k \in 1..Len(pushed)}

IsPermutation(s, t) ==
    /\ Len(s) = Len(t)
    /\ \A v \in Range(s) \cup Range(t) : Count(s, v) = Count(t, v)

\* a precedes b in head-to-tail order
Before(a, b) ==
    \E i, j \in 1..Len(Fwd) : i < j /\ Fwd[i] = a /\ Fwd[j] = b

\* C4: after every list_push_asc (default ordering or the strictly-greater
\* callback) the values from head to tail are in non-decreasing order and
\* are a permutation of the values inserted so far.
C4_AscSorted ==
    /\ \A k \in 1..(Len(Fwd) - 1) : val[Fwd[k]] <= val[Fwd[k + 1]]
    /\ IsPermutation(ValuesFwd, PushedValues)
    /\ Range(Fwd) = PushedNodes

\* a larger value was inserted before a smaller one, with the callback
\* installed, and MaxNodes values are in the list
C4_Witness ==
    /\ call[1] = "list_push_asc"
    /\ compare # "NULL"
    /\ Len(pushed) = MaxNodes
    /\ len = MaxNodes
    /\ pushed[1][2] > pushed[2][2]

\* C5: after every list_push_desc (default ordering or the strictly-greater
\* callback) the values from head to tail are in non-increasing order and
\* are a permutation of the values inserted so far.
C5_DescSorted ==
    /\ \A k \in 1..(Len(Fwd) - 1) : val[Fwd[k]] >= val[Fwd[k + 1]]
    /\ IsPermutation(ValuesFwd, PushedValues)
    /\ Range(Fwd) = PushedNodes

\* a smaller value was inserted before a larger one, with the callback
\* installed, and MaxNodes values are in the list
C5_Witness ==
    /\ call[1] = "list_push_desc"
    /\ compare # "NULL"
    /\ Len(pushed) = MaxNodes
    /\ len = MaxNodes
    /\ pushed[1][2] < pushed[2][2]

\* equal keys keep their insertion order from head to tail
Stable ==
    \A i, j \in 1..Len(pushed) :
        (i < j /\ pushed[i][2] = pushed[j][2])
            => Before(pushed[i][1], pushed[j][1])

\* C6: in a list built by list_push_asc only, a node inserted before
\* another node of equal key precedes it from head to tail, in every later
\* state, with and without the compare callback.
C6_AscStable == Stable

\* two equal keys were inserted with the callback installed, then a third
\* node
C6_Witness ==
    /\ call[1] = "list_push_asc"
    /\ compare # "NULL"
    /\ Len(pushed) = MaxNodes
    /\ pushed[1][2] = pushed[2][2]
    /\ Before(pushed[1][1], pushed[2][1])

\* C7: in a list built by list_push_desc only, a node inserted before
\* another node of equal key precedes it from head to tail, with and
\* without the compare callback.
C7_DescStable ==
    \A i, j \in 1..Len(pushed) :
        (i < j /\ pushed[i][2] = pushed[j][2])
            => \E a, b \in 1..Len(Fwd) :
                  a < b /\ Fwd[a] = pushed[i][1] /\ Fwd[b] = pushed[j][1]

(***************************************************************************)
(* Index scenario: a list is built and taken apart with the pushes, pops   *)
(* and list_remove, and list_at is called on it.                           *)
(***************************************************************************)
NextAt ==
    \/ \E v \in Vals : NodeNew(v, TRUE) /\ Quiet
    \/ \E node \in Nodes : Rpush(node) /\ Quiet
    \/ \E node \in Nodes : Lpush(node) /\ Quiet
    \/ Rpop /\ Quiet
    \/ Lpop /\ Quiet
    \/ \E node \in Nodes : Remove(node) /\ Quiet
    \/ \E index \in Indexes : At(index) /\ Quiet

SpecAt == Init /\ [][NextAt]_vars

\* C8: list_at(i) returns the node i steps after head when 0 <= i < len,
\* the node (-i - 1) steps before tail when -len <= i < 0, and NULL for
\* every other index.
C8_AtIndex ==
    call[1] = "list_at" =>
        LET i == call[2] IN
        ret = IF 0 <= i /\ i < len THEN Fwd[i + 1]
              ELSE IF i < 0 /\ (0 - len) <= i THEN Bwd[0 - i]
              ELSE NULL

\* list_at(-len) on a full list returned the head, which is not the tail
C8_Witness ==
    /\ call[1] = "list_at"
    /\ len = MaxNodes
    /\ call[2] = 0 - len
    /\ ret = head
    /\ ret # tail

(***************************************************************************)
(* Traversal scenario: up to two iterators are created on the list, read   *)
(* with list_iterator_next (at most MaxCalls times each) and destroyed;    *)
(* the caller does not change the list while an iterator exists.  The      *)
(* iterator never reads val, so every node holds the same value handle.    *)
(***************************************************************************)
NoIterator == \A i \in Iters : it_state[i] = "none"

IterNew(i, direction) ==
    /\ alive
    /\ it_state[i] = "none"
    /\ it_next' = [it_next EXCEPT ![i] = list_iterator_new(direction)]
    /\ it_direction' = [it_direction EXCEPT ![i] = direction]
    /\ it_state' = [it_state EXCEPT ![i] = "live"]
    /\ yielded' = [yielded EXCEPT ![i] = <<>>]
    /\ call' = <<"list_iterator_new", i>>
    /\ UNCHANGED <<match, fault>>
    /\ ret' = NULL
    /\ UNCHANGED <<nodeVars, listVars, released, histVars>>

\* list_iterator_next as a step, with the bug of cutting the link it
\* followed
IterNext_CutsLink(i) ==
    /\ alive
    /\ it_state[i] = "live"
    /\ Len(yielded[i]) < MaxCalls
    /\ LET curr == it_next[i] IN
          /\ it_next' = [it_next EXCEPT
                            ![i] = list_iterator_next(curr, it_direction[i])]
          /\ yielded' = [yielded EXCEPT ![i] = Append(@, curr)]
          /\ ret' = curr
          /\ next' = IF curr # NULL THEN [next EXCEPT ![curr] = NULL] ELSE next
    /\ call' = <<"list_iterator_next", i>>
    /\ UNCHANGED <<match, fault>>
    /\ UNCHANGED <<prev, val, owner, listVars, released, histVars,
                   it_direction, it_state>>

IterNext(i) ==
    /\ alive
    /\ it_state[i] = "live"
    /\ Len(yielded[i]) < MaxCalls
    /\ LET curr == it_next[i] IN
          /\ it_next' = [it_next EXCEPT
                            ![i] = list_iterator_next(curr, it_direction[i])]
          /\ yielded' = [yielded EXCEPT ![i] = Append(@, curr)]
          /\ ret' = curr
    /\ call' = <<"list_iterator_next", i>>
    /\ UNCHANGED <<match, fault>>
    /\ UNCHANGED <<nodeVars, listVars, released, histVars,
                   it_direction, it_state>>

IterDestroy(i) ==
    /\ alive
    /\ it_state[i] = "live"
    /\ it_state' = [it_state EXCEPT ![i] = "none"]
    /\ it_next' = [it_next EXCEPT ![i] = NULL]
    /\ it_direction' = [it_direction EXCEPT ![i] = LIST_HEAD]
    /\ yielded' = [yielded EXCEPT ![i] = <<>>]
    /\ call' = <<"list_iterator_destroy", i>>
    /\ UNCHANGED <<match, fault>>
    /\ ret' = NULL
    /\ UNCHANGED <<nodeVars, listVars, released, histVars>>

NextIter ==
    \/ NoIterator /\ NodeNew(MaxVal, TRUE) /\ Quiet
    \/ \E node \in Nodes : NoIterator /\ Rpush(node) /\ Quiet
    \/ \E node \in Nodes : NoIterator /\ Lpush(node) /\ Quiet
    \/ NoIterator /\ Rpop /\ Quiet
    \/ NoIterator /\ Lpop /\ Quiet
    \/ \E node \in Nodes : NoIterator /\ Remove(node) /\ Quiet
    \/ \E i \in Iters, d \in {LIST_HEAD, LIST_TAIL} : IterNew(i, d)
    \/ \E i \in Iters : IterNext(i)
    \/ \E i \in Iters : IterDestroy(i)

SpecIter == Init /\ [][NextIter]_vars

\* C9: an iterator on a list of len nodes that is not changed meanwhile
\* yields on its first len calls the nodes in head-to-tail order
\* (LIST_HEAD) or tail-to-head order (LIST_TAIL), and NULL on every later
\* call; a second iterator of the same direction yields the same nodes.
C9_IteratorYields ==
    /\ \A i \in Iters :
          it_state[i] = "live" =>
              LET order == IF it_direction[i] = LIST_HEAD THEN Fwd ELSE Bwd IN
              \A k \in 1..Len(yielded[i]) :
                  yielded[i][k] = IF k <= len THEN order[k] ELSE NULL
    /\ \A i, j \in Iters :
          (it_state[i] = "live" /\ it_state[j] = "live"
              /\ it_direction[i] = it_direction[j])
            => \A k \in 1..Len(yielded[i]) :
                  k <= Len(yielded[j]) => yielded[i][k] = yielded[j][k]

\* on a full list a LIST_TAIL iterator was read MaxNodes + 2 times, a
\* second LIST_TAIL iterator MaxNodes times
C9_Witness ==
    /\ len = MaxNodes
    /\ it_state[1] = "live"
    /\ it_state[2] = "live"
    /\ it_direction[1] = LIST_TAIL
    /\ it_direction[2] = LIST_TAIL
    /\ Len(yielded[1]) = MaxNodes + 2
    /\ Len(yielded[2]) = MaxNodes
    /\ yielded[1][1] = tail
    /\ yielded[1][MaxNodes + 1] = NULL

\* C11: a list_rpop step on a non-empty list returns the node that was the
\* tail, a list_lpop step the node that was the head; the returned node has
\* no prev and no next and its value as before, len drops by one, the other
\* nodes keep their order and values, and no value is released.  On an
\* empty list both return NULL and head, tail, len and the chain stay.
C11_PopDetaches ==
    [][(call'[1] \in {"list_rpop", "list_lpop"}) =>
          IF len = 0
          THEN /\ ret' = NULL
               /\ UNCHANGED <<head, tail, len, prev, next, val>>
               /\ released' = released
          ELSE /\ ret' = (IF call'[1] = "list_rpop" THEN tail ELSE head)
               /\ prev'[ret'] = NULL
               /\ next'[ret'] = NULL
               /\ val' = val
               /\ len' = len - 1
               /\ Fwd' = (IF call'[1] = "list_rpop"
                          THEN SubSeq(Fwd, 1, Len(Fwd) - 1)
                          ELSE SubSeq(Fwd, 2, Len(Fwd)))
               /\ Bwd' = (IF call'[1] = "list_rpop"
                          THEN SubSeq(Bwd, 2, Len(Bwd))
                          ELSE SubSeq(Bwd, 1, Len(Bwd) - 1))
               /\ released' = released]_vars

\* list_rpop took the tail off a list of MaxNodes nodes that has a release
\* callback installed: the node is detached, holds its value, and nothing
\* was released
C11_Witness ==
    /\ call[1] = "list_rpop"
    /\ ret # NULL
    /\ owner[ret] = "caller"
    /\ val[ret] # NULL
    /\ prev[ret] = NULL
    /\ next[ret] = NULL
    /\ free # "NULL"
    /\ released[ret] = 0
    /\ len = MaxNodes - 1

\* the sequence without the element x
Without(seq, x) == SelectSeq(seq, LAMBDA e : e # x)

Reverse(seq) == [k \in 1..Len(seq) |-> seq[Len(seq) + 1 - k]]

\* C12: a list_remove step on a node of the list returns 0 and takes
\* exactly that node out: the other nodes keep their order and values,
\* head / tail move to the neighbour when the node was the head / tail, len
\* drops by one, and the release callback is invoked exactly once, on that
\* node's value, when installed and not at all when not.
C12_RemoveUnlinks ==
    [][(call'[1] = "list_remove" /\ call'[2] \in Range(Fwd)) =>
          LET node == call'[2] IN
          /\ ret' = 0
          /\ Fwd' = Without(Fwd, node)
          /\ Bwd' = Reverse(Fwd')
          /\ head' = (IF head = node THEN next[node] ELSE head)
          /\ tail' = (IF tail = node THEN prev[node] ELSE tail)
          /\ len' = len - 1
          /\ owner'[node] = "freed"
          /\ \A n \in Nodes \ {node} : val'[n] = val[n] /\ owner'[n] = owner[n]
          /\ \A n \in Nodes :
                released'[n] = released[n] +
                    (IF n = node /\ free # "NULL" THEN 1 ELSE 0)]_vars

\* list_remove took a node out of a list of MaxNodes nodes that has a
\* release callback installed: its value was released once, the values of
\* the nodes left in the list were not
C12_Witness ==
    /\ call[1] = "list_remove"
    /\ call[2] # NULL
    /\ ret = 0
    /\ owner[call[2]] = "freed"
    /\ free # "NULL"
    /\ released[call[2]] = 1
    /\ len = MaxNodes - 1
    /\ \A n \in Range(Fwd) : released[n] = 0

(***************************************************************************)
(* Misuse scenario: besides the calls of the general scenario the caller   *)
(* passes list_remove a node it holds itself (wrapped and never pushed, or *)
(* handed back by a pop), which is in no list.  The run is followed up to  *)
(* and including the first such call: Consistent fails after it and no     *)
(* further call is made.  len is an unsigned int; its value is written as  *)
(* the signed reading of the same 32 bits, so 0 - 1 stands for UINT_MAX.   *)
(***************************************************************************)
Consistent == Len(Fwd) = len /\ Range(Fwd) = Linked

RemoveStray(node) ==
    /\ alive
    /\ node \in Detached
    /\ list_remove(node)
    /\ call' = <<"list_remove", node>>
    /\ UNCHANGED <<match, fault>>
    /\ UNCHANGED <<free, compare, alive>>

NextMisuse ==
    \/ \E v \in Vals : Consistent /\ NodeNew(v, TRUE) /\ Quiet
    \/ \E node \in Nodes : Consistent /\ Rpush(node) /\ Quiet
    \/ \E node \in Nodes : Consistent /\ Lpush(node) /\ Quiet
    \/ Consistent /\ Rpop /\ Quiet
    \/ Consistent /\ Lpop /\ Quiet
    \/ \E node \in NodePtr : Consistent /\ Remove(node) /\ Quiet
    \/ \E f \in FreeFns : Consistent /\ Configure(f, compare) /\ Quiet
    \/ \E node \in Nodes : Consistent /\ RemoveStray(node) /\ Quiet

SpecMisuse == Init /\ [][NextMisuse]_vars

\* C13 as stated: a list_remove step on a node that is in no list returns
\* the invalid-argument result -1 and leaves head, tail, len and all links
\* unchanged.
C13_RemoveRefusesStray ==
    [][(call'[1] = "list_remove" /\ call'[2] \in Detached) =>
          /\ ret' = -1
          /\ UNCHANGED <<head, tail, len, prev, next>>]_vars

\* C13 amended: list_remove refuses (-1, nothing changed) a null node only.
\* A node that is in no list is not recognised: the step returns 0, sets
\* head and tail to the node's own (absent) neighbours, so both become
\* absent, lowers len by one (from 0 to UINT_MAX), releases the node's value
\* when a release callback is installed, and frees the node; the nodes that
\* were linked keep their links but are no longer reachable from head.
C13_RemoveTrustsCaller ==
    [][(call'[1] = "list_remove" /\ call'[2] \notin Range(Fwd)) =>
          LET node == call'[2] IN
          IF node = NULL
          THEN /\ ret' = -1
               /\ UNCHANGED <<head, tail, len, prev, next, val, owner,
                              released>>
          ELSE /\ ret' = 0
               /\ head' = NULL
               /\ tail' = NULL
               /\ len' = len - 1
               /\ owner'[node] = "freed"
               /\ \A n \in Nodes \ {node} :
                     /\ prev'[n] = prev[n]
                     /\ next'[n] = next[n]
                     /\ val'[n] = val[n]
                     /\ owner'[n] = owner[n]
               /\ \A n \in Nodes :
                     released'[n] = released[n] +
                         (IF n = node /\ free # "NULL" THEN 1 ELSE 0)]_vars

\* list_remove was handed a node that was in no list while two nodes were
\* linked: it returned 0, the two nodes are still linked to each other but
\* head and tail are absent and len is 1
C13_Witness ==
    /\ call[1] = "list_remove"
    /\ call[2] # NULL
    /\ ret = 0
    /\ owner[call[2]] = "freed"
    /\ Cardinality(Linked) = 2
    /\ head = NULL
    /\ tail = NULL
    /\ len = 1
    /\ \E a, b \in Linked : next[a] = b /\ prev[b] = a

(***************************************************************************)
(* Construction scenario: the list comes from either definition of         *)
(* list_new, the one of list.c or the static inline one of list.h, which   *)
(* sets self->free = LIST_FREE.  No callback is installed afterwards;      *)
(* the list is filled, popped from, removed from and destroyed.            *)
(***************************************************************************)
list_new_h ==
    /\ head = NULL
    /\ tail = NULL
    /\ free = "LIST_FREE"
    /\ match = "NULL"
    /\ compare = "NULL"
    /\ len = 0

InitNew ==
    /\ list_new \/ list_new_h
    /\ alive = TRUE
    /\ fault = FALSE
    /\ prev = [n \in Nodes |-> NULL]
    /\ next = [n \in Nodes |-> NULL]
    /\ val = [n \in Nodes |-> NULL]
    /\ owner = [n \in Nodes |-> "none"]
    /\ released = [n \in Nodes |-> 0]
    /\ call = <<"list_new", NULL>>
    /\ ret = NULL
    /\ pushed = <<>>
    /\ popped = <<>>
    /\ it_next = [i \in Iters |-> NULL]
    /\ it_direction = [i \in Iters |-> LIST_HEAD]
    /\ it_state = [i \in Iters |-> "none"]
    /\ yielded = [i \in Iters |-> <<>>]

NextNew ==
    \/ \E v \in Vals : NodeNew(v, TRUE) /\ Quiet
    \/ \E node \in Nodes : Rpush(node) /\ Quiet
    \/ \E node \in Nodes : Lpush(node) /\ Quiet
    \/ Rpop /\ Quiet
    \/ Lpop /\ Quiet
    \/ \E node \in Nodes : Remove(node) /\ Quiet
    \/ Destroy /\ Quiet

SpecNew == InitNew /\ [][NextNew]_vars

\* C14: the list returned by list_new (either definition) has no head, no
\* tail, len 0 and no release, match or compare callback; and as long as no
\* callback is configured, list_remove and list_destroy release no value.
C14_NewHasNoCallbacks ==
    /\ call[1] = "list_new" =>
          /\ head = NULL
          /\ tail = NULL
          /\ len = 0
          /\ free = "NULL"
          /\ match = "NULL"
          /\ compare = "NULL"
    /\ \A n \in Nodes : released[n] = 0

(***************************************************************************)
(* list_find(self, val): the first node from the head whose value matches, *)
(* by self->match when installed, else by equality of the handles.  The    *)
(* match callback is the caller's; the one used here answers 1 when its    *)
(* first argument is at least its second, so it tells the argument order   *)
(* and differs from equality.                                              *)
(***************************************************************************)
at_least(a, b) == IF a >= b THEN 1 ELSE 0

MatchFns == {"NULL", "at_least"}

\* the test in the body of the while loop
Matches(a, b) ==
    IF match # "NULL" THEN at_least(a, b) # 0 ELSE a = b

\* the while loop of list_find; it is the iterator's cursor
RECURSIVE FindLoop(_, _, _)
FindLoop(it, direction, v) ==
    LET node == it IN
    IF node = NULL THEN NULL
    ELSE IF Matches(val[node], v) THEN node
    ELSE FindLoop(list_iterator_next(node, direction), direction, v)

\* list_find with the bug of scanning from the tail
list_find_FromTail(v) ==
    FindLoop(list_iterator_new(LIST_TAIL), LIST_TAIL, v)

list_find(v) ==
    FindLoop(list_iterator_new(LIST_HEAD), LIST_HEAD, v)

Find(v) ==
    /\ alive
    /\ ret' = list_find(v)
    /\ call' = <<"list_find", v>>
    /\ UNCHANGED fault
    /\ UNCHANGED <<nodeVars, listVars, match, released>>

\* the caller installs the match callback: once, right after list_new
ConfigureMatch(mf) ==
    /\ alive
    /\ call[1] = "list_new"
    /\ mf # match
    /\ match' = mf
    /\ call' = <<"configure", NULL>>
    /\ ret' = NULL
    /\ UNCHANGED fault
    /\ UNCHANGED <<nodeVars, listVars, released>>

\* Search scenario: a list is built and taken apart, and searched.
NextFind ==
    \/ \E v \in Vals : NodeNew(v, TRUE) /\ Quiet
    \/ \E node \in Nodes : Rpush(node) /\ Quiet
    \/ \E node \in Nodes : Lpush(node) /\ Quiet
    \/ Lpop /\ Quiet
    \/ \E node \in Nodes : Remove(node) /\ Quiet
    \/ \E mf \in MatchFns : ConfigureMatch(mf) /\ Quiet
    \/ \E v \in Vals : Find(v) /\ Quiet

SpecFind == Init /\ [][NextFind]_vars

\* C15: list_find(v) returns the node closest to the head whose value
\* matches v (the match callback answering true on (node value, v) when
\* one is installed, the same handle otherwise), and NULL when no node of
\* the list matches, the empty list included.
C15_FindFirstMatch ==
    call[1] = "list_find" =>
        LET v == call[2]
            hit(n) == IF match = "NULL" THEN val[n] = v
                      ELSE at_least(val[n], v) = 1
            hits == {k \in 1..Len(Fwd) : hit(Fwd[k])}
        IN  IF hits = {} THEN ret = NULL
            ELSE /\ ret # NULL
                 /\ \E k \in hits : ret = Fwd[k] /\ \A j \in hits : k <= j

\* with the match callback installed list_find returned a node that is
\* not the head (the head does not match) although a later node matches
\* as well
C15_Witness ==
    /\ call[1] = "list_find"
    /\ match # "NULL"
    /\ len = MaxNodes
    /\ ret # NULL
    /\ ret # head
    /\ ret # tail
    /\ at_least(val[head], call[2]) = 0
    /\ at_least(val[tail], call[2]) = 1

Pushes == {"list_rpush", "list_lpush", "list_push_asc", "list_push_desc"}

\* C16: a list_node_new step on a null value returns NULL and makes no
\* node; a push step (list_rpush, list_lpush, list_push_asc,
\* list_push_desc) on a null node returns NULL and leaves head, tail, len
\* and every link as they were; a push step on a node returns that node
\* and raises len by exactly one.
C16_NullRefused ==
    [][/\ (call'[1] = "list_node_new" /\ call'[2] = NULL) =>
            /\ ret' = NULL
            /\ UNCHANGED <<nodeVars, listVars>>
       /\ (call'[1] \in Pushes /\ call'[2] = NULL) =>
            /\ ret' = NULL
            /\ UNCHANGED <<head, tail, len, prev, next, val, owner>>
       /\ (call'[1] \in Pushes /\ call'[2] # NULL) =>
            /\ ret' = call'[2]
            /\ len' = len + 1
            /\ call'[2] \in Range(Fwd') \ Range(Fwd)]_vars

\* list_push_desc was called with a null node on a list holding a node and
\* returned NULL
C16_Witness ==
    /\ call = <<"list_push_desc", NULL>>
    /\ ret = NULL
    /\ len = MaxNodes
    /\ Len(Fwd) = MaxNodes

(***************************************************************************)
(* Out-of-memory scenario.  list_find, list_at (for an index in range) and *)
(* the ordered insertions (on a non-empty list) create an iterator with    *)
(* list_iterator_new and pass the result to list_iterator_next without     *)
(* testing it.  When LIST_MALLOC fails the iterator is NULL and            *)
(* list_iterator_next reads self->next through it.  That read is           *)
(* undefined: the process is killed (fault), or the read yields what is    *)
(* stored at that address, any pointer g, and the loop goes on from g (of  *)
(* these the model follows the g that are NULL or a node of the list).     *)
(* The third component of call marks a call whose iterator allocation      *)
(* failed.                                                                 *)
(***************************************************************************)
Killed ==
    /\ fault' = TRUE
    /\ UNCHANGED <<nodeVars, listVars, match, released, ret>>

GarbageCursors == Linked \cup {NULL}
Directions == {LIST_HEAD, LIST_TAIL}

\* the part of both ordered insertions after the loop, for the node the
\* loop stopped at
LinkBefore(node_in, node) ==
    IF node = NULL THEN list_rpush(node_in)
    ELSE IF prev[node] = NULL THEN list_lpush(node_in)
    ELSE InsertBefore(node_in, node)

FindNoMem(v) ==
    /\ alive
    /\ call' = <<"list_find", v, "ENOMEM">>
    /\ \/ Killed
       \/ \E g \in GarbageCursors, d \in Directions :
             /\ ret' = FindLoop(g, d, v)
             /\ UNCHANGED <<nodeVars, listVars, match, released, fault>>

AtNoMem(index) ==
    LET idx == IF index < 0 THEN (-index) - 1 ELSE index IN
    /\ alive
    /\ idx < len
    /\ call' = <<"list_at", index, "ENOMEM">>
    /\ \/ Killed
       \/ \E g \in GarbageCursors, d \in Directions :
             /\ ret' = AtLoop(g, list_iterator_next(g, d), d, idx)
             /\ UNCHANGED <<nodeVars, listVars, match, released, fault>>

PushAscNoMem(node_in) ==
    /\ alive
    /\ node_in \in Detached
    /\ len # 0
    /\ call' = <<"list_push_asc", node_in, "ENOMEM">>
    /\ \/ Killed
       \/ \E g \in GarbageCursors :
             /\ LinkBefore(node_in, AscScan(g, val[node_in]))
             /\ owner' = Take(node_in)
             /\ UNCHANGED <<val, free, compare, alive, match, released,
                            fault>>

PushDescNoMem(node_in) ==
    /\ alive
    /\ node_in \in Detached
    /\ len # 0
    /\ call' = <<"list_push_desc", node_in, "ENOMEM">>
    /\ \/ Killed
       \/ \E g \in GarbageCursors :
             /\ LinkBefore(node_in, DescScan(g, val[node_in]))
             /\ owner' = Take(node_in)
             /\ UNCHANGED <<val, free, compare, alive, match, released,
                            fault>>

NextNoMem ==
    \/ \E v \in Vals : ~fault /\ NodeNew(v, TRUE) /\ Quiet
    \/ \E node \in Nodes : ~fault /\ Rpush(node) /\ Quiet
    \/ ~fault /\ Lpop /\ Quiet
    \/ \E v \in Vals : ~fault /\ FindNoMem(v) /\ Quiet
    \/ \E index \in Indexes : ~fault /\ AtNoMem(index) /\ Quiet
    \/ \E node \in Nodes : ~fault /\ PushAscNoMem(node) /\ Quiet
    \/ \E node \in Nodes : ~fault /\ PushDescNoMem(node) /\ Quiet

SpecNoMem == Init /\ [][NextNoMem]_vars

\* C17: a list_find, list_at, list_push_asc or list_push_desc step whose
\* internal iterator cannot be allocated returns NULL, leaves the list as
\* it was and does not kill the process.
C17_NoMemReported ==
    [][Len(call') = 3 =>
          /\ ~fault'
          /\ ret' = NULL
          /\ UNCHANGED <<head, tail, len, prev, next, val, owner>>]_vars

\* the least element of a non-empty set of numbers
Least(S) == CHOOSE k \in S : \A j \in S : k <= j

\* C18: a list_push_asc step with a node x on any list (sorted or not)
\* links x immediately before the first node e from the head for which
\* compare(e.val, x.val) is true (without a callback: e.val > x.val), as
\* the new head when e is the head and after the tail when there is no
\* such e; a list_push_desc step does so for the first e for which
\* compare(e.val, x.val) is false (without a callback: e.val < x.val).  The
\* nodes already present keep their order, len grows by one, x is
\* returned; on an empty list x becomes the only node, as with list_rpush.
C18_OrderedInsertPoint ==
    [][(call'[1] \in {"list_push_asc", "list_push_desc"} /\ call'[2] # NULL) =>
          LET x == call'[2]
              stop(e) ==
                  IF call'[1] = "list_push_asc"
                  THEN (IF compare # "NULL" THEN greater(val[e], val[x]) = 1
                        ELSE val[e] > val[x])
                  ELSE (IF compare # "NULL" THEN greater(val[e], val[x]) = 0
                        ELSE val[e] < val[x])
              stops == {k \in 1..Len(Fwd) : stop(Fwd[k])}
              at == IF stops = {} THEN Len(Fwd) + 1 ELSE Least(stops)
          IN  /\ Fwd' = SubSeq(Fwd, 1, at - 1) \o <<x>>
                            \o SubSeq(Fwd, at, Len(Fwd))
              /\ Bwd' = Reverse(Fwd')
              /\ (at = 1) => head' = x
              /\ (at = Len(Fwd) + 1) => tail' = x
              /\ len' = len + 1
              /\ ret' = x
              /\ val' = val]_vars

\* list_push_asc put a node in front of a list that was not in ascending
\* order
C18_Witness ==
    /\ call[1] = "list_push_asc"
    /\ ret # NULL
    /\ ret = head
    /\ len = MaxNodes
    /\ val[next[head]] > val[ret]
    /\ val[next[head]] > val[tail]

(***************************************************************************)
(* Reading scenario: the traversal scenario, with list_find and list_at    *)
(* called as well, also while iterators exist.                             *)
(***************************************************************************)
NextRead ==
    \/ NoIterator /\ NodeNew(MaxVal, TRUE) /\ Quiet
    \/ \E node \in Nodes : NoIterator /\ Rpush(node) /\ Quiet
    \/ \E node \in Nodes : NoIterator /\ Lpush(node) /\ Quiet
    \/ NoIterator /\ Lpop /\ Quiet
    \/ \E node \in Nodes : NoIterator /\ Remove(node) /\ Quiet
    \/ \E i \in Iters, d \in Directions : IterNew(i, d)
    \/ \E i \in Iters : IterNext(i)
    \/ \E i \in Iters : IterDestroy(i)
    \/ \E v \in Vals : Find(v) /\ Quiet
    \/ \E index \in Indexes : At(index) /\ Quiet

SpecRead == Init /\ [][NextRead]_vars

Reads == {"list_iterator_new", "list_iterator_next", "list_find", "list_at"}

\* C19: a step that creates an iterator, calls list_iterator_next,
\* list_find or list_at leaves head, tail, len, the three callbacks and
\* every node's prev, next and val as they were, whatever it returns.
C19_ReadsOnly ==
    [][call'[1] \in Reads =>
          UNCHANGED <<head, tail, len, free, match, compare,
                      prev, next, val>>]_vars

\* on a full list an iterator has yielded every node and then NULL, and
\* list_at was called with an index out of range and returned NULL
C19_Witness ==
    /\ len = MaxNodes
    /\ Len(Fwd) = MaxNodes
    /\ \E i \in Iters :
          /\ it_state[i] = "live"
          /\ Len(yielded[i]) = MaxNodes + 1
          /\ yielded[i][MaxNodes + 1] = NULL
    /\ call = <<"list_at", MaxNodes>>
    /\ ret = NULL

\* C20: in every list of n nodes list_at(i) and list_at(i - n) are the same
\* node for 0 <= i < n, and what a LIST_TAIL iterator yields is what a
\* LIST_HEAD iterator yields in reverse: the k-th node of the one is the
\* (n + 1 - k)-th node of the other.
C20_ViewsAgree ==
    /\ \A i \in 0..(len - 1) :
          /\ list_at(i) = list_at(i - len)
          /\ list_at(i) # NULL
    /\ \A i, j \in Iters :
          (/\ it_state[i] = "live" /\ it_direction[i] = LIST_HEAD
           /\ it_state[j] = "live" /\ it_direction[j] = LIST_TAIL)
            => \A k \in 1..len :
                  (k <= Len(yielded[i]) /\ len + 1 - k <= Len(yielded[j]))
                    => yielded[i][k] = yielded[j][len + 1 - k]

\* on a full list a LIST_HEAD and a LIST_TAIL iterator have each yielded
\* all the nodes, and list_at(-len) returned the head
C20_Witness ==
    /\ len = MaxNodes
    /\ it_state[1] = "live"
    /\ it_state[2] = "live"
    /\ it_direction[1] = LIST_HEAD
    /\ it_direction[2] = LIST_TAIL
    /\ Len(yielded[1]) = MaxNodes
    /\ Len(yielded[2]) = MaxNodes
    /\ yielded[1][1] = yielded[2][MaxNodes]
    /\ yielded[1][1] # yielded[2][1]
    /\ call = <<"list_at", 0 - MaxNodes>>
    /\ ret = head

====
